---- MODULE Spec2Model ----
(***************************************************************************)
(* Karnataka Assembly 2023 dashboard (src/app.py): the data pipeline of    *)
(* one Streamlit script run -- load_data (cached), sidebar filters, the    *)
(* empty-result guard, the aggregations and the three views -- as a state  *)
(* machine.  Text is a sequence of one-character strings; a number is an   *)
(* integer count of tenths (72.5 is 725), so that parsing and formatting   *)
(* are real conversions.                                                   *)
(***************************************************************************)
EXTENDS Integers, Sequences, FiniteSets, TLC

VARIABLES
    file,         \* the CSV on disk: [cols |-> set of column names, rows |-> sequence of text rows]
    cache,        \* st.cache_data's entries for load_data: << >> or << df >>
    readCsv,      \* whether pd.read_csv ran in the current script run
    pc,           \* position of the current script run
    df,           \* the dataframe load_data returned to the script
    sel,          \* the widget values of the run: view_mode and the three filters
    filtered_df,  \* rows of df kept by the filters
    agg,          \* section 4's aggregations, or NotRun
    view,         \* what the selected view computed, or NotRun
    message,      \* the st.error shown, or NoMessage
    exported,     \* the frame whose CSV export was put back as the input file
    normIn,       \* norm_party's argument (pure-function specification)
    normOut       \* norm_party's result

vars == << file, cache, readCsv, pc, df, sel, filtered_df, agg, view, message,
           exported, normIn, normOut >>

----------------------------------------------------------------------------
(* Text *)

\* The characters the model uses, in code-point order.
Alphabet ==
    << " ", "(", ")", ".",
       "0", "1", "2", "3", "4", "5", "6", "7", "8", "9",
       "A", "B", "C", "D", "E", "F", "G", "H", "I", "J", "K", "L", "M",
       "N", "O", "P", "Q", "R", "S", "T", "U", "V", "W", "X", "Y", "Z",
       "a", "b", "c", "d", "e", "f", "g", "h", "i", "j", "k", "l", "m",
       "n", "o", "p", "q", "r", "s", "t", "u", "v", "w", "x", "y", "z" >>

Chars == { Alphabet[i] : i \in 1..Len(Alphabet) }

Code[c \in Chars] == CHOOSE i \in 1..Len(Alphabet) : Alphabet[i] = c

Digits == << "0", "1", "2", "3", "4", "5", "6", "7", "8", "9" >>

IsDigit(c) == \E i \in 1..10 : Digits[i] = c

DigitVal(c) == (CHOOSE i \in 1..10 : Digits[i] = c) - 1

\* str.upper() on one character.
UpperChar(c) == IF Code[c] >= Code["a"] /\ Code[c] <= Code["z"]
                THEN Alphabet[Code[c] - Code["a"] + Code["A"]]
                ELSE c

\* str.upper()
Upper(s) == [ i \in 1..Len(s) |-> UpperChar(s[i]) ]

IsSpace(c) == c = " "

RECURSIVE LStrip(_)
LStrip(s) == IF s # << >> /\ IsSpace(Head(s)) THEN LStrip(Tail(s)) ELSE s

RECURSIVE RStrip(_)
RStrip(s) == IF s # << >> /\ IsSpace(s[Len(s)])
             THEN RStrip(SubSeq(s, 1, Len(s) - 1))
             ELSE s

\* str.strip()
Strip(s) == RStrip(LStrip(s))

\* sub in s
Contains(s, sub) ==
    \E i \in 0..(Len(s) - Len(sub)) : SubSeq(s, i + 1, i + Len(sub)) = sub

\* s.startswith(pre)
StartsWith(s, pre) == Len(s) >= Len(pre) /\ SubSeq(s, 1, Len(pre)) = pre

\* s < t in Python's string order (code points, a proper prefix first).
RECURSIVE StrLess(_, _)
StrLess(s, t) ==
    IF t = << >> THEN FALSE
    ELSE IF s = << >> THEN TRUE
    ELSE IF Head(s) = Head(t) THEN StrLess(Tail(s), Tail(t))
    ELSE Code[Head(s)] < Code[Head(t)]

\* sorted(S) for a set of strings.
RECURSIVE SortedStrs(_)
SortedStrs(S) ==
    IF S = {} THEN << >>
    ELSE LET m == CHOOSE x \in S : \A y \in S \ {x} : StrLess(x, y)
         IN  << m >> \o SortedStrs(S \ {m})

RECURSIVE Concat(_)
Concat(ss) == IF ss = << >> THEN << >> ELSE Head(ss) \o Concat(Tail(ss))

Range(f) == { f[i] : i \in DOMAIN f }

\* Literals of the program.
INC == << "I", "N", "C" >>
BJP == << "B", "J", "P" >>
JDS == << "J", "D", "S" >>
Others == << "O", "t", "h", "e", "r", "s" >>
JD == << "J", "D" >>
CONGRESS == << "C", "O", "N", "G", "R", "E", "S", "S" >>
BHARATIYA_JANATA ==
    << "B", "H", "A", "R", "A", "T", "I", "Y", "A", " ", "J", "A", "N", "A", "T", "A" >>
JANATA_DAL == << "J", "A", "N", "A", "T", "A", " ", "D", "A", "L" >>

----------------------------------------------------------------------------
(* Numbers and cells.  A cell of a dataframe is [t, s, n]: t is "str" (text *)
(* s), "int" or "float" (n tenths: 72.5 is 725, the integer 3 is 30), or    *)
(* "nan".  The numeric literals modelled are digits with at most one        *)
(* decimal place.                                                           *)

StrCell(s) == [t |-> "str", s |-> s, n |-> 0]
IntCell(k) == [t |-> "int", s |-> << >>, n |-> k * 10]
FloatCell(tenths) == [t |-> "float", s |-> << >>, n |-> tenths]
NaN == [t |-> "nan", s |-> << >>, n |-> 0]

AllDigits(s) == s # << >> /\ \A i \in 1..Len(s) : IsDigit(s[i])

IsIntLiteral(s) == AllDigits(s)

IsFloatLiteral(s) ==
    /\ Len(s) >= 3
    /\ s[Len(s) - 1] = "."
    /\ IsDigit(s[Len(s)])
    /\ AllDigits(SubSeq(s, 1, Len(s) - 2))

RECURSIVE DigitsVal(_)
DigitsVal(s) ==
    IF s = << >> THEN 0
    ELSE DigitsVal(SubSeq(s, 1, Len(s) - 1)) * 10 + DigitVal(s[Len(s)])

\* The number a text cell parses to, or NaN.
ParseNumber(s) ==
    IF IsIntLiteral(s) THEN IntCell(DigitsVal(s))
    ELSE IF IsFloatLiteral(s)
         THEN FloatCell(DigitsVal(SubSeq(s, 1, Len(s) - 2)) * 10 + DigitVal(s[Len(s)]))
         ELSE NaN

RECURSIVE FormatNat(_)
FormatNat(k) ==
    IF k < 10 THEN << Digits[k + 1] >>
    ELSE FormatNat(k \div 10) \o << Digits[(k % 10) + 1] >>

\* Numbers written without their decimal place (faulty variant).
FormatNumberMut(c) == FormatNat(c.n \div 10)

\* str(v) / the text to_csv writes for a number.
FormatNumber(c) ==
    IF c.t = "int" THEN FormatNat(c.n \div 10)
    ELSE FormatNat(c.n \div 10) \o << "." >> \o << Digits[(c.n % 10) + 1] >>

\* str(p) for a cell.
PyStr(c) ==
    CASE c.t = "str" -> c.s
      [] c.t = "nan" -> << "n", "a", "n" >>
      [] OTHER -> FormatNumber(c)

\* pd.read_csv's type inference for one column: an empty field is NaN; the
\* column is integer if every field is an integer literal, float if every
\* non-empty field is numeric, and text otherwise.
InferColumn(texts) ==
    LET n == Len(texts)
        allInt == \A i \in 1..n : IsIntLiteral(texts[i])
        allNum == \A i \in 1..n :
                      texts[i] = << >> \/ IsIntLiteral(texts[i]) \/ IsFloatLiteral(texts[i])
    IN  [ i \in 1..n |->
            IF texts[i] = << >> THEN NaN
            ELSE IF allInt THEN ParseNumber(texts[i])
            ELSE IF allNum THEN FloatCell(ParseNumber(texts[i]).n)
            ELSE StrCell(texts[i]) ]

\* pd.to_numeric(column, errors="coerce"): what does not parse becomes NaN;
\* the result is integer only if every value is.
ToNumeric(col) ==
    LET parsed == [ i \in 1..Len(col) |->
                      IF col[i].t = "str" THEN ParseNumber(col[i].s) ELSE col[i] ]
        allInt == \A i \in 1..Len(col) : parsed[i].t = "int"
    IN  [ i \in 1..Len(col) |->
            IF allInt \/ parsed[i].t = "nan" THEN parsed[i]
            ELSE FloatCell(parsed[i].n) ]

\* .fillna(default) with a float default.
FillNa(col, tenths) ==
    [ i \in 1..Len(col) |-> IF col[i].t = "nan" THEN FloatCell(tenths) ELSE col[i] ]

\* .astype(int) on a column without NaN: truncation; the value in units.
AsTypeInt(col) == [ i \in 1..Len(col) |-> col[i].n \div 10 ]

\* The fillna defaults, in tenths: 0, 72.0 and 1.
MarginDefault == 0
TurnoutDefault == 720
SeatsDefault == 10

\* load_data.norm_party, a faulty variant checking BJP before INC.
norm_partyMut(p) ==
    LET q == Strip(Upper(PyStr(p)))
    IN  IF q = BJP \/ Contains(q, BHARATIYA_JANATA) THEN BJP
        ELSE IF q = INC \/ Contains(q, CONGRESS) THEN INC
        ELSE IF StartsWith(q, JD) \/ Contains(q, JANATA_DAL) THEN JDS
        ELSE Others

\* load_data.norm_party, the fallback returning the text unbucketed (faulty variant).
norm_partyRaw(p) ==
    LET q == Strip(Upper(PyStr(p)))
    IN  IF q = INC \/ Contains(q, CONGRESS) THEN INC
        ELSE IF q = BJP \/ Contains(q, BHARATIYA_JANATA) THEN BJP
        ELSE IF StartsWith(q, JD) \/ Contains(q, JANATA_DAL) THEN JDS
        ELSE q

\* load_data.norm_party
norm_party(p) ==
    LET q == Strip(Upper(PyStr(p)))
    IN  IF q = INC \/ Contains(q, CONGRESS) THEN INC
        ELSE IF q = BJP \/ Contains(q, BHARATIYA_JANATA) THEN BJP
        ELSE IF StartsWith(q, JD) \/ Contains(q, JANATA_DAL) THEN JDS
        ELSE Others

required ==
    { "Constituency_ID", "Constituency_Name", "Winner_Name", "Winner_Party",
      "Winner", "Region", "Margin", "Turnout_Percentage", "Seats" }

Column(rows, name) == [ i \in 1..Len(rows) |-> rows[i][name] ]

\* pd.read_csv(CSV_FILE_NAME): the typed frame of the file's text.
read_csv(f) ==
    LET ids == InferColumn(Column(f.rows, "Constituency_ID"))
        win == InferColumn(Column(f.rows, "Winner"))
        mar == InferColumn(Column(f.rows, "Margin"))
        tur == InferColumn(Column(f.rows, "Turnout_Percentage"))
        sea == InferColumn(Column(f.rows, "Seats"))
    IN  [ cols |-> f.cols,
          rows |-> [ i \in 1..Len(f.rows) |->
                       [ Constituency_ID |-> ids[i],
                         Region |-> f.rows[i].Region,
                         Winner |-> win[i],
                         Margin |-> mar[i],
                         Turnout_Percentage |-> tur[i],
                         Seats |-> sea[i] ] ] ]

\* The column check dropped (faulty variant).
missingMut(f) == {}

\* The columns load_data reports missing.
missing(f) == required \ f.cols

\* load_data's body after the column check: the coercions and norm_party.
coerce(raw) ==
    LET n == Len(raw.rows)
        mar == AsTypeInt(FillNa(ToNumeric(Column(raw.rows, "Margin")), MarginDefault))
        tur == FillNa(ToNumeric(Column(raw.rows, "Turnout_Percentage")), TurnoutDefault)
        sea == AsTypeInt(FillNa(ToNumeric(Column(raw.rows, "Seats")), SeatsDefault))
    IN  [ cols |-> raw.cols,
          rows |-> [ i \in 1..n |->
                       [ Constituency_ID |-> raw.rows[i].Constituency_ID,
                         Region |-> raw.rows[i].Region,
                         Winner |-> norm_party(raw.rows[i].Winner),
                         Margin |-> mar[i],
                         Turnout_Percentage |-> tur[i],
                         Seats |-> sea[i] ] ] ]

\* filtered_df.to_csv(index=False): the header and every cell as text.
to_csv(frame) ==
    [ cols |-> frame.cols,
      rows |-> [ i \in 1..Len(frame.rows) |->
                   LET r == frame.rows[i]
                   IN  [ Constituency_ID |-> IF r.Constituency_ID.t = "nan" THEN << >>
                                             ELSE PyStr(r.Constituency_ID),
                         Region |-> r.Region,
                         Winner |-> r.Winner,
                         Margin |-> FormatNat(r.Margin),
                         Turnout_Percentage |-> FormatNumber(r.Turnout_Percentage),
                         Seats |-> FormatNat(r.Seats) ] ] ]

----------------------------------------------------------------------------
(* The script run *)

NoFrame == [cols |-> {}, rows |-> << >>]
NoSel == [set |-> FALSE]
NotRun == [run |-> FALSE]
NoMessage == [kind |-> "none"]
NoCell == [t |-> "none", s |-> << >>, n |-> 0]

\* The slider's values (tenths): 0.0 to 100.0 in steps of 0.5.
SliderValues == { 5 * k : k \in 0..200 }

Buckets == << INC, BJP, JDS, Others >>

\* Series.between(left, right), with the left bound exclusive (faulty variant).
betweenMut(x, left, right) == left < x /\ x <= right

\* Series.between(left, right): inclusive on both sides.
between(x, left, right) == left <= x /\ x <= right

\* The filter mask of lines 127-131.
filter_mask(r, region_filter, party_filter, turnout_min, turnout_max) ==
    /\ r.Region \in region_filter
    /\ r.Winner \in party_filter
    /\ between(r.Turnout_Percentage.n, turnout_min, turnout_max)

\* sorted(frame["Region"].unique())
region_options(rows) == SortedStrs({ rows[i].Region : i \in 1..Len(rows) })

\* frame["Winner"].value_counts().sort_index(): one entry per bucket that
\* occurs, ascending by bucket.
value_counts_sorted(rows) ==
    LET keys == SortedStrs({ rows[i].Winner : i \in 1..Len(rows) })
    IN  [ k \in 1..Len(keys) |->
            [ key |-> keys[k],
              val |-> Cardinality({ i \in 1..Len(rows) : rows[i].Winner = keys[k] }) ] ]

\* Series.idxmax() taking the last maximum (faulty variant).
idxmaxMut(series) ==
    LET k == CHOOSE k \in 1..Len(series) :
                 /\ \A j \in 1..Len(series) : series[j].val <= series[k].val
                 /\ \A j \in (k + 1)..Len(series) : series[j].val < series[k].val
    IN  series[k].key

\* Series.idxmax(): the label of the first occurrence of the maximum.
idxmax(series) ==
    LET k == CHOOSE k \in 1..Len(series) :
                 /\ \A j \in 1..Len(series) : series[j].val <= series[k].val
                 /\ \A j \in 1..(k - 1) : series[j].val < series[k].val
    IN  series[k].key

\* series[key]
At(series, key) == series[CHOOSE k \in 1..Len(series) : series[k].key = key].val

\* series.get(key, default)
Get(series, key, default) ==
    IF \E k \in 1..Len(series) : series[k].key = key THEN At(series, key) ELSE default

RECURSIVE SumSeq(_)
SumSeq(q) == IF q = << >> THEN 0 ELSE Head(q) + SumSeq(Tail(q))

\* (total_seats_state // 2) + 1, without the + 1 (faulty variant).
majority_markMut(total_seats_state) == total_seats_state \div 2

\* majority_mark = (total_seats_state // 2) + 1
majority_mark(total_seats_state) == (total_seats_state \div 2) + 1

\* The third argument of c1.metric: "Majority" or "Hung Assembly".
government_status(party_counts_state, winner_party_state, mark) ==
    IF At(party_counts_state, winner_party_state) >= mark
    THEN "Majority" ELSE "Hung Assembly"

\* Section 4 (lines 139-145).
aggregations(frame, filtered) ==
    LET party_counts_state == value_counts_sorted(frame.rows)
        total_seats_state == Len(frame.rows)
    IN  [ run |-> TRUE,
          party_counts_state |-> party_counts_state,
          total_seats_state |-> total_seats_state,
          majority_mark |-> majority_mark(total_seats_state),
          winner_party_state |-> idxmax(party_counts_state),
          party_counts_filtered |-> value_counts_sorted(filtered),
          total_seats_filtered |-> Len(filtered) ]

\* The pivoted table's columns: every bucket, occurring or not (faulty variant).
pivot_columnsMut(rows) == SortedStrs(Range(Buckets))

\* The pivoted table's columns: the buckets occurring in the rows, ascending.
pivot_columns(rows) == SortedStrs({ rows[i].Winner : i \in 1..Len(rows) })

\* groupby(["Region","Winner"])["Seats"].sum() ... pivot ... fillna(0)
\* .astype(int).sort_index(), then the Total_Seats column.
regional_summary(rows) ==
    LET index == region_options(rows)
        columns == pivot_columns(rows)
        group(r, c) == SelectSeq(rows, LAMBDA x : x.Region = r /\ x.Winner = c)
        cell == [ r \in Range(index), c \in Range(columns) |->
                    IF group(r, c) = << >> THEN 0
                    ELSE SumSeq(Column(group(r, c), "Seats")) ]
    IN  [ index |-> index,
          columns |-> columns,
          cell |-> cell,
          Total_Seats |-> [ r \in Range(index) |->
                              SumSeq([ k \in 1..Len(columns) |-> cell[r, columns[k]] ]) ] ]

\* comp_df (lines 209-215); a percentage count / total * 100 is kept as the
\* fraction num / den.
comp_df(a) ==
    [ k \in 1..Len(Buckets) |->
        LET st == Get(a.party_counts_state, Buckets[k], 0)
            fl == Get(a.party_counts_filtered, Buckets[k], 0)
        IN  [ Party |-> Buckets[k],
              Statewide_Seats |-> st,
              Filtered_Seats |-> fl,
              Statewide_pct |-> [num |-> st * 100, den |-> a.total_seats_state],
              Filtered_pct |-> [num |-> fl * 100, den |-> a.total_seats_filtered] ] ]

\* sorted values of a column of numbers
RECURSIVE SortedNums(_)
SortedNums(q) ==
    IF q = << >> THEN << >>
    ELSE LET k == CHOOSE k \in 1..Len(q) : \A j \in 1..Len(q) : q[k] <= q[j]
         IN  << q[k] >> \o SortedNums([ j \in 1..(Len(q) - 1) |-> IF j < k THEN q[j] ELSE q[j + 1] ])

\* Series.median() as a fraction (the mean of the two middle values when the
\* count is even).
median(q) ==
    LET sq == SortedNums(q)
        n == Len(q)
    IN  IF n % 2 = 1 THEN [num |-> sq[(n + 1) \div 2], den |-> 1]
        ELSE [num |-> sq[n \div 2] + sq[(n \div 2) + 1], den |-> 2]

close_threshold == 2000

\* filtered_df.empty never true (faulty variant: the guard of lines 133-135 dropped).
emptyMut(rows) == FALSE

\* DataFrame.empty
empty(rows) == rows = << >>

\* The per-run state before the script's first line.
FreshRun ==
    /\ readCsv' = FALSE
    /\ df' = NoFrame
    /\ sel' = NoSel
    /\ filtered_df' = << >>
    /\ agg' = NotRun
    /\ view' = NotRun
    /\ message' = NoMessage

\* load_data without @st.cache_data: every call reads the file (faulty variant).
load_dataMut ==
    /\ pc = "start"
    /\ readCsv' = TRUE
    /\ IF missing(file) # {}
       THEN /\ message' = [kind |-> "schema", missing |-> missing(file)]
            /\ pc' = "stopped"
            /\ UNCHANGED << df, cache >>
       ELSE /\ df' = coerce(read_csv(file))
            /\ cache' = << df' >>
            /\ pc' = "loaded"
            /\ UNCHANGED message
    /\ UNCHANGED << file, sel, filtered_df, agg, view, exported, normIn, normOut >>

\* df = load_data() (lines 41-80): a cached result is returned without
\* running the body; otherwise the body runs, and its result is stored only
\* if it returns (st.stop() raises out of it).
load_data ==
    /\ pc = "start"
    /\ IF cache # << >>
       THEN /\ df' = cache[1]
            /\ readCsv' = FALSE
            /\ pc' = "loaded"
            /\ UNCHANGED << cache, message >>
       ELSE /\ readCsv' = TRUE
            /\ IF missing(file) # {}
               THEN /\ message' = [kind |-> "schema", missing |-> missing(file)]
                    /\ pc' = "stopped"
                    /\ UNCHANGED << df, cache >>
               ELSE /\ df' = coerce(read_csv(file))
                    /\ cache' = << df' >>
                    /\ pc' = "loaded"
                    /\ UNCHANGED message
    /\ UNCHANGED << file, sel, filtered_df, agg, view, exported, normIn, normOut >>

\* The sidebar widgets, the filter and the empty-result guard (lines 91-135).
sidebar(view_mode, region_filter, party_filter, turnout_min, turnout_max) ==
    /\ pc = "loaded"
    /\ turnout_min \in SliderValues /\ turnout_max \in SliderValues
    /\ turnout_min <= turnout_max
    /\ party_filter \subseteq Range(Buckets)
    /\ region_filter \subseteq Range(region_options(df.rows))
    /\ sel' = [ set |-> TRUE, view_mode |-> view_mode,
                region_filter |-> region_filter, party_filter |-> party_filter,
                turnout_min |-> turnout_min, turnout_max |-> turnout_max ]
    /\ filtered_df' = SelectSeq(df.rows,
                         LAMBDA r : filter_mask(r, region_filter, party_filter,
                                                turnout_min, turnout_max))
    /\ IF empty(filtered_df')
       THEN message' = [kind |-> "no_data"] /\ pc' = "stopped"
       ELSE pc' = "filtered" /\ UNCHANGED message
    /\ UNCHANGED << file, cache, readCsv, df, agg, view, exported, normIn, normOut >>

\* Section 4 (lines 139-145).
aggregate ==
    /\ pc = "filtered"
    /\ agg' = aggregations(df, filtered_df)
    /\ pc' = "aggregated"
    /\ UNCHANGED << file, cache, readCsv, df, sel, filtered_df, view, message,
                    exported, normIn, normOut >>

\* view_mode == "Executive Summary" (lines 149-237).
executive_summary ==
    /\ pc = "aggregated"
    /\ sel.view_mode = "Executive Summary"
    /\ view' = [ run |-> TRUE,
                 formed_by |-> agg.winner_party_state,
                 inc_seats |-> Get(agg.party_counts_state, INC, 0),
                 bjp_seats |-> Get(agg.party_counts_state, BJP, 0),
                 avg_turnout |-> [ num |-> SumSeq([ i \in 1..Len(filtered_df) |->
                                                     filtered_df[i].Turnout_Percentage.n ]),
                                   den |-> Len(filtered_df) ],
                 status |-> government_status(agg.party_counts_state,
                                              agg.winner_party_state, agg.majority_mark),
                 regional_summary |-> regional_summary(filtered_df),
                 comp_df |-> comp_df(agg) ]
    /\ pc' = "done"
    /\ UNCHANGED << file, cache, readCsv, df, sel, filtered_df, agg, message,
                    exported, normIn, normOut >>

\* view_mode == "Regional Deep-Dive" (lines 240-284); the order in which the
\* table is displayed is not kept.
regional_deep_dive(selected_region) ==
    /\ pc = "aggregated"
    /\ sel.view_mode = "Regional Deep-Dive"
    /\ selected_region \in Range(region_options(filtered_df))
    /\ view' = [ run |-> TRUE,
                 selected_region |-> selected_region,
                 regional_df |-> SelectSeq(filtered_df,
                                           LAMBDA r : r.Region = selected_region) ]
    /\ pc' = "done"
    /\ UNCHANGED << file, cache, readCsv, df, sel, filtered_df, agg, message,
                    exported, normIn, normOut >>

\* view_mode == "Constituency Analysis" (lines 287-346).
constituency_analysis ==
    /\ pc = "aggregated"
    /\ sel.view_mode = "Constituency Analysis"
    /\ view' = [ run |-> TRUE,
                 turnout_mid |-> median([ i \in 1..Len(filtered_df) |->
                                            filtered_df[i].Turnout_Percentage.n ]),
                 swing_seats |-> SelectSeq(filtered_df,
                                           LAMBDA r : r.Margin < close_threshold),
                 safe_seats |-> SelectSeq(filtered_df,
                                          LAMBDA r : r.Margin >= close_threshold),
                 csv |-> to_csv([cols |-> df.cols, rows |-> filtered_df]) ]
    /\ pc' = "done"
    /\ UNCHANGED << file, cache, readCsv, df, sel, filtered_df, agg, message,
                    exported, normIn, normOut >>

\* A widget change (or a manual rerun) runs the script again from its first
\* line; the cache outlives the run.
rerun ==
    /\ pc \in {"done", "stopped"}
    /\ pc' = "start"
    /\ FreshRun
    /\ UNCHANGED << file, cache, exported, normIn, normOut >>

\* The CSV file named by CSV_FILE_NAME is replaced on disk.
file_change(f) ==
    /\ pc \in {"start", "loaded", "filtered", "aggregated", "done", "stopped"}
    /\ f # file
    /\ file' = f
    /\ UNCHANGED << cache, readCsv, pc, df, sel, filtered_df, agg, view, message,
                    exported, normIn, normOut >>

\* The downloaded export becomes the input file of a new session (empty
\* cache), which runs the script.
reload_export ==
    /\ pc = "done"
    /\ sel.view_mode = "Constituency Analysis"
    /\ exported = NoFrame
    /\ file' = view.csv
    /\ cache' = << >>
    /\ exported' = [cols |-> df.cols, rows |-> filtered_df]
    /\ pc' = "start"
    /\ FreshRun
    /\ UNCHANGED << normIn, normOut >>

\* norm_party applied to one value.
norm_apply ==
    /\ pc = "norm"
    /\ normOut' = norm_party(normIn)
    /\ pc' = "normed"
    /\ UNCHANGED << file, cache, readCsv, df, sel, filtered_df, agg, view, message,
                    exported, normIn >>

\* The column of results goes through norm_party again (an exported file
\* that is loaded).
norm_again ==
    /\ pc = "normed"
    /\ normIn # StrCell(normOut)
    /\ normIn' = StrCell(normOut)
    /\ pc' = "norm"
    /\ UNCHANGED << file, cache, readCsv, df, sel, filtered_df, agg, view, message,
                    exported, normOut >>

----------------------------------------------------------------------------
(* Inputs *)

MaxRows == 2
MaxMissing == 1
MaxFrags == 2

Coastal == << "C", "o", "a", "s", "t", "a", "l" >>
Bengaluru == << "B", "e", "n", "g", "a", "l", "u", "r", "u" >>

RegionTexts == { Coastal, Bengaluru }

\* Sequences over S of length at most n.
SeqsUpTo(S, n) == UNION { [1..k -> S] : k \in 0..n }

\* CSV files: a header and up to MaxRows rows whose fields are drawn from the
\* given texts; the Constituency_ID of row i is i followed by a suffix.
Files(Cols, Regions, Winners, Margins, Turnouts, SeatsTexts, Suffixes) ==
    LET Rows == [ Region : Regions, Winner : Winners, Margin : Margins,
                  Turnout_Percentage : Turnouts, Seats : SeatsTexts, sfx : Suffixes ]
    IN  { [ cols |-> c,
            rows |-> [ i \in 1..Len(q) |->
                         [ Constituency_ID |-> FormatNat(i) \o q[i].sfx,
                           Region |-> q[i].Region,
                           Winner |-> q[i].Winner,
                           Margin |-> q[i].Margin,
                           Turnout_Percentage |-> q[i].Turnout_Percentage,
                           Seats |-> q[i].Seats ] ] ]
          : c \in Cols, q \in SeqsUpTo(Rows, MaxRows) }

\* Headers lacking at most MaxMissing of the required columns.
ColumnSets == { required \ m : m \in { x \in SUBSET required : Cardinality(x) <= MaxMissing } }

InitWith(F) ==
    /\ file \in F
    /\ cache = << >>
    /\ readCsv = FALSE
    /\ pc = "start"
    /\ df = NoFrame
    /\ sel = NoSel
    /\ filtered_df = << >>
    /\ agg = NotRun
    /\ view = NotRun
    /\ message = NoMessage
    /\ exported = NoFrame
    /\ normIn = NoCell
    /\ normOut = << >>

ViewModes == { "Executive Summary", "Regional Deep-Dive", "Constituency Analysis" }

----------------------------------------------------------------------------
(* The dashboard: every step, the file changing under it *)

\* One row of text fields.
OneRow ==
    << [ Constituency_ID |-> << "1" >>, Region |-> Coastal, Winner |-> INC,
         Margin |-> << "1", "5", "0", "0" >>,
         Turnout_Percentage |-> << "6", "0", ".", "5" >>, Seats |-> << "1" >> ] >>

\* Files whose header lacks required columns.
DefectiveFiles == { [cols |-> c, rows |-> OneRow] : c \in ColumnSets \ {required} }

SpecFiles ==
    Files({required}, RegionTexts, { INC }, { << "1", "5", "0", "0" >> },
          { << "6", "0", ".", "5" >> }, { << "1" >> }, { << >> })
    \cup DefectiveFiles

Init == InitWith(SpecFiles)

Next ==
    \/ load_data
    \/ \E vm \in ViewModes, rf \in SUBSET RegionTexts, hi \in {600, 1000} :
          sidebar(vm, rf, Range(Buckets), 0, hi)
    \/ aggregate
    \/ executive_summary
    \/ \E r \in RegionTexts : regional_deep_dive(r)
    \/ constituency_analysis
    \/ rerun
    \/ \E f \in SpecFiles : file_change(f)

Spec == Init /\ [][Next]_vars

----------------------------------------------------------------------------
(* The filter engine: every selection of the three filters *)

FilterFiles ==
    Files({required}, RegionTexts, { INC, << "b", "j", "p" >> }, { << "1", "5", "0", "0" >> },
          { << "6", "0", ".", "0" >>, << "a", "b", "c" >> }, { << "1" >> }, { << >> })

InitFilter == InitWith(FilterFiles)

TurnoutStops == { 0, 600, 720, 1000 }

NextFilter ==
    \/ load_data
    \/ \E rf \in SUBSET RegionTexts, pf \in SUBSET { INC, BJP, Others },
          lo \in TurnoutStops, hi \in TurnoutStops :
          sidebar("Executive Summary", rf, pf, lo, hi)
    \/ rerun

SpecFilter == InitFilter /\ [][NextFilter]_vars

----------------------------------------------------------------------------
(* The aggregations and the executive summary *)

AggFiles ==
    Files({required}, RegionTexts, { INC, << "b", "j", "p" >>, << "J", "D", "(", "S", ")" >>, << "I", "N", "D" >> }, { << "1", "5", "0", "0" >> },
          { << "6", "0", ".", "0" >> }, { << "2" >>, << "x" >> }, { << >> })

InitAgg == InitWith(AggFiles)

PartyChoices == { Range(Buckets), {INC}, {INC, BJP}, {JDS, Others} }

NextAgg ==
    \/ load_data
    \/ \E rf \in SUBSET RegionTexts, pf \in PartyChoices :
          sidebar("Executive Summary", rf, pf, 0, 1000)
    \/ aggregate
    \/ executive_summary
    \/ rerun

SpecAgg == InitAgg /\ [][NextAgg]_vars

----------------------------------------------------------------------------
(* The export, loaded again *)

ExportFiles ==
    Files({required}, { Coastal }, { INC }, { << "2", "5", "0", "0", ".", "7" >>, << "a", "b", "c" >> },
          { << "7", "2" >>, << "6", "0", ".", "5" >>, << "a", "b", "c" >> }, { << "1" >> }, { << >>, << "A" >> })
    \cup
    Files({required}, { Coastal }, { INC, << "b", "j", "p" >>, << "J", "D", "(", "S", ")" >>, << >> }, { << "1", "5", "0", "0" >> },
          { << "6", "0", ".", "5" >> }, { << "2" >>, << "x" >>, << >> }, { << >> })

InitExport == InitWith(ExportFiles)

ExportRanges == { << 0, 1000 >>, << 0, 650 >>, << 650, 1000 >>, << 720, 720 >> }

NextExport ==
    \/ load_data
    \/ \E pf \in { Range(Buckets), {INC, Others} }, tr \in ExportRanges :
          sidebar("Constituency Analysis", { Coastal }, pf, tr[1], tr[2])
    \/ aggregate
    \/ constituency_analysis
    \/ reload_export
    \/ rerun

SpecExport == InitExport /\ [][NextExport]_vars

----------------------------------------------------------------------------
(* norm_party on its own *)

Fragments ==
    { << "i", "n", "c" >>, << "I", "N", "C" >>, << " " >>, << "C", "o", "n", "g", "r", "e", "s", "s" >>, << "b", "j", "p" >>, << "B", "J", "P" >>, << "B", "h", "a", "r", "a", "t", "i", "y", "a", " ", "J", "a", "n", "a", "t", "a" >>, << " ", "D", "a", "l" >>,
      << "j", "d" >>, << "J", "a", "n", "a", "t", "a", " ", "D", "a", "l" >>, << "(", "S", ")" >>, << "I", "N", "D" >> }

NormInputs ==
    { StrCell(Concat(q)) : q \in SeqsUpTo(Fragments, MaxFrags) }
    \cup { NaN, IntCell(7), FloatCell(725) }

InitNorm ==
    /\ normIn \in NormInputs
    /\ normOut = << >>
    /\ pc = "norm"
    /\ file = NoFrame
    /\ cache = << >>
    /\ readCsv = FALSE
    /\ df = NoFrame
    /\ sel = NoSel
    /\ filtered_df = << >>
    /\ agg = NotRun
    /\ view = NotRun
    /\ message = NoMessage
    /\ exported = NoFrame

NextNorm == norm_apply \/ norm_again

SpecNorm == InitNorm /\ [][NextNorm]_vars

----------------------------------------------------------------------------
(* Properties *)

RECURSIVE SumOver(_, _)
SumOver(S, f) ==
    IF S = {} THEN 0
    ELSE LET x == CHOOSE x \in S : TRUE IN f[x] + SumOver(S \ {x}, f)

\* The rows of a sequence, as a set.
RowSet(rows) == { rows[i] : i \in 1..Len(rows) }

\* How many rows of a sequence have the bucket b.
CountOf(rows, b) == Cardinality({ i \in 1..Len(rows) : rows[i].Winner = b })

\* The three predicates of a filter selection, on one row.
Satisfies(r) ==
    /\ r.Region \in sel.region_filter
    /\ r.Winner \in sel.party_filter
    /\ sel.turnout_min <= r.Turnout_Percentage.n
    /\ r.Turnout_Percentage.n <= sel.turnout_max

\* C1: once the filters are applied, the filtered rows are exactly the rows
\* of the dataset whose region is selected, whose bucket is selected and
\* whose turnout lies in [turnout_min, turnout_max], both ends included:
\* every kept row satisfies the three predicates and every satisfying row is
\* kept (once, in the dataset's order).
C1_FilterSoundComplete ==
    sel.set =>
        /\ \A r \in RowSet(filtered_df) : r \in RowSet(df.rows) /\ Satisfies(r)
        /\ \A r \in RowSet(df.rows) : Satisfies(r) => r \in RowSet(filtered_df)
        /\ Len(filtered_df) = Cardinality({ i \in 1..Len(df.rows) : Satisfies(df.rows[i]) })

\* A selection that keeps a row whose turnout equals turnout_min, keeps a row
\* whose turnout equals turnout_max and drops another row.
C1_Witness ==
    /\ sel.set
    /\ \E r \in RowSet(filtered_df) : r.Turnout_Percentage.n = sel.turnout_min
    /\ \E r \in RowSet(filtered_df) : r.Turnout_Percentage.n = sel.turnout_max
    /\ Len(filtered_df) < Len(df.rows)

\* C2: a run whose filtered set is empty stops with the no-data notice and
\* computes no aggregation and no view; whenever the seat-share percentages
\* are computed, both divisors (the statewide and the filtered row count)
\* are greater than 0.
C2_EmptyResultHalts ==
    /\ (sel.set /\ filtered_df = << >>) =>
           /\ pc = "stopped"
           /\ message = [kind |-> "no_data"]
           /\ ~agg.run
           /\ ~view.run
    /\ agg.run => Len(filtered_df) > 0 /\ Len(df.rows) > 0
    /\ (view.run /\ sel.view_mode = "Executive Summary") =>
           \A k \in 1..Len(view.comp_df) :
               /\ view.comp_df[k].Statewide_pct.den > 0
               /\ view.comp_df[k].Filtered_pct.den > 0

\* A non-empty dataset filtered down to nothing, the run stopped.
C2_Witness ==
    /\ sel.set
    /\ df.rows # << >>
    /\ filtered_df = << >>
    /\ pc = "stopped"
    /\ message = [kind |-> "no_data"]

\* The upper-cased, trimmed text norm_party decides on.
NormText == Strip(Upper(PyStr(normIn)))
RuleINC == NormText = INC \/ Contains(NormText, CONGRESS)
RuleBJP == NormText = BJP \/ Contains(NormText, BHARATIYA_JANATA)
RuleJDS == StartsWith(NormText, JD) \/ Contains(NormText, JANATA_DAL)

\* C3: norm_party returns exactly one of INC, BJP, JDS, Others for every
\* input, decided on the upper-cased, trimmed text with the first matching
\* rule winning: INC if it is "INC" or contains "CONGRESS"; else BJP if it is
\* "BJP" or contains "BHARATIYA JANATA"; else JDS if it starts with "JD" or
\* contains "JANATA DAL"; else Others.
C3_NormPartyFirstMatch ==
    pc = "normed" =>
        /\ normOut \in Range(Buckets)
        /\ RuleINC => normOut = INC
        /\ (~RuleINC /\ RuleBJP) => normOut = BJP
        /\ (~RuleINC /\ ~RuleBJP /\ RuleJDS) => normOut = JDS
        /\ (~RuleINC /\ ~RuleBJP /\ ~RuleJDS) => normOut = Others

\* A mixed-case input matching the INC rule and the BJP rule, normalised.
C3_Witness ==
    /\ pc = "normed"
    /\ normIn.t = "str"
    /\ normIn.s # NormText
    /\ RuleINC /\ RuleBJP
    /\ normOut = INC

\* What a script run leaves untouched when load_data stops it.
NothingRan == df = NoFrame /\ ~sel.set /\ filtered_df = << >> /\ ~agg.run /\ ~view.run

\* C4: when load_data reads a file that lacks required columns, the run
\* stops there with an error naming exactly the columns absent from the
\* file's header; nothing is coerced, cached, filtered, aggregated or
\* rendered in that run, and a dataframe a run works on always has all nine
\* required columns.
C4_SchemaErrorHalts ==
    [][ /\ (pc = "start" /\ pc' # "start" /\ cache = << >> /\ required \ file.cols # {}) =>
            /\ pc' = "stopped"
            /\ message' = [kind |-> "schema", missing |-> required \ file.cols]
            /\ cache' = << >>
            /\ NothingRan'
        /\ (message.kind = "schema" /\ pc' # "start") => (pc' = "stopped" /\ NothingRan')
        /\ (pc' \in {"loaded", "filtered", "aggregated", "done"}) =>
            required \subseteq df'.cols ]_vars

\* A run stopped by a header lacking columns, the error naming them.
C4_Witness ==
    /\ pc = "stopped"
    /\ message.kind = "schema"
    /\ message.missing # {}
    /\ message.missing = required \ file.cols
    /\ NothingRan

\* The scenario of 224 seats: INC 135, BJP 66, JDS 19, Others 4.
Scenario224 ==
    << [key |-> BJP, val |-> 66], [key |-> INC, val |-> 135],
       [key |-> JDS, val |-> 19], [key |-> Others, val |-> 4] >>

\* C5: the status shown is "Majority" exactly when the governing bucket has
\* at least floor(total/2) + 1 of the dataset's rows, total being the number
\* of rows, and "Hung Assembly" otherwise; for 224 rows the mark is 113, and
\* INC 135, BJP 66, JDS 19, Others 4 gives INC with "Majority".
C5_MajorityStatus ==
    view.run =>
        /\ agg.majority_mark = (Len(df.rows) \div 2) + 1
        /\ view.status \in {"Majority", "Hung Assembly"}
        /\ view.status = "Majority" <=>
               2 * CountOf(df.rows, view.formed_by) > Len(df.rows)
        /\ view.status = "Majority" <=>
               CountOf(df.rows, view.formed_by) >= (Len(df.rows) \div 2) + 1
        /\ majority_mark(224) = 113
        /\ idxmax(Scenario224) = INC
        /\ government_status(Scenario224, idxmax(Scenario224), majority_mark(224)) = "Majority"

\* An even split: the governing bucket holds exactly half of the rows.
C5_Witness ==
    /\ view.run
    /\ Len(df.rows) = 2
    /\ CountOf(df.rows, view.formed_by) = 1
    /\ view.status = "Hung Assembly"

\* The alphabetical order of the buckets.
AlphaOrder == << BJP, INC, JDS, Others >>
AlphaRank(b) == CHOOSE k \in 1..4 : AlphaOrder[k] = b

\* C6: the governing bucket of a non-empty dataset has the maximal row
\* count, and among buckets sharing that count it is the first in the order
\* BJP < INC < JDS < Others.
C6_GoverningBucket ==
    agg.run =>
        LET w == agg.winner_party_state
        IN  /\ w \in Range(Buckets)
            /\ CountOf(df.rows, w) > 0
            /\ \A b \in Range(Buckets) :
                   /\ CountOf(df.rows, b) <= CountOf(df.rows, w)
                   /\ (CountOf(df.rows, b) = CountOf(df.rows, w) /\ b # w) =>
                          AlphaRank(w) < AlphaRank(b)

\* Two buckets tie for the maximum.
C6_Witness ==
    /\ agg.run
    /\ \E b \in Range(Buckets) :
           /\ b # agg.winner_party_state
           /\ CountOf(df.rows, b) = CountOf(df.rows, agg.winner_party_state)

\* The seats of the rows of a sequence having region r and bucket b.
SeatsOf(rows, r, b) ==
    SumOver({ i \in 1..Len(rows) : rows[i].Region = r /\ rows[i].Winner = b },
            [ i \in 1..Len(rows) |-> rows[i].Seats ])

\* The rest of C7 once the columns are fixed: regions ascending, every cell
\* the seats of its (region, bucket), Total_Seats the row sum.
MatrixBody(m) ==
    /\ m.index = SortedStrs({ r.Region : r \in RowSet(filtered_df) })
    /\ \A k \in 1..(Len(m.index) - 1) : StrLess(m.index[k], m.index[k + 1])
    /\ \A r \in Range(m.index), c \in Range(m.columns) :
           m.cell[r, c] = SeatsOf(filtered_df, r, c)
    /\ \A r \in Range(m.index) :
           /\ m.Total_Seats[r] = SumOver(Range(m.columns), [ c \in Range(m.columns) |-> m.cell[r, c] ])
           /\ m.Total_Seats[r] =
                  SumOver({ i \in 1..Len(filtered_df) : filtered_df[i].Region = r },
                          [ i \in 1..Len(filtered_df) |-> filtered_df[i].Seats ])

\* C7 as claimed: the matrix has a column for each of the four buckets,
\* whether or not the bucket occurs in the filtered rows.
C7_FourColumns ==
    view.run =>
        /\ Range(view.regional_summary.columns) = Range(Buckets)
        /\ MatrixBody(view.regional_summary)

\* C7 (amended): the matrix has one row per region occurring in the filtered
\* rows (ascending) and one column per bucket occurring in the filtered rows
\* (ascending); a bucket that wins no filtered row has no column.  Each cell
\* is the sum of seats of its (region, bucket), 0 when there is no such row,
\* and Total_Seats is the sum of the row's cells.
C7_RegionalMatrix ==
    view.run =>
        /\ Range(view.regional_summary.columns) = { r.Winner : r \in RowSet(filtered_df) }
        /\ \A k \in 1..(Len(view.regional_summary.columns) - 1) :
               StrLess(view.regional_summary.columns[k], view.regional_summary.columns[k + 1])
        /\ MatrixBody(view.regional_summary)

\* Two regions and two buckets with a (region, bucket) pair that has no row,
\* a row of two seats, and buckets that win nothing in the filtered rows.
C7_Witness ==
    /\ view.run
    /\ Len(view.regional_summary.index) = 2
    /\ Len(view.regional_summary.columns) = 2
    /\ \E r \in Range(view.regional_summary.index), c \in Range(view.regional_summary.columns) :
           view.regional_summary.cell[r, c] = 0
    /\ \E r \in Range(view.regional_summary.index) : view.regional_summary.Total_Seats[r] = 2

\* C8: in comp_df the seats listed for INC, BJP, JDS, Others add up to the
\* number of rows, for the dataset and for the filtered rows, so the four
\* percentages count / total * 100 add up to 100 in both scopes.
C8_SeatShareSums ==
    (view.run /\ sel.view_mode = "Executive Summary") =>
        LET c == view.comp_df
        IN  /\ Len(c) = 4
            /\ SumSeq([ k \in 1..4 |-> c[k].Statewide_Seats ]) = Len(df.rows)
            /\ SumSeq([ k \in 1..4 |-> c[k].Filtered_Seats ]) = Len(filtered_df)
            /\ \A k \in 1..4 :
                   /\ c[k].Statewide_pct.den = Len(df.rows) /\ Len(df.rows) > 0
                   /\ c[k].Filtered_pct.den = Len(filtered_df) /\ Len(filtered_df) > 0
            /\ SumSeq([ k \in 1..4 |-> c[k].Statewide_pct.num ]) = 100 * Len(df.rows)
            /\ SumSeq([ k \in 1..4 |-> c[k].Filtered_pct.num ]) = 100 * Len(filtered_df)

\* A filtered scope smaller than the dataset, with a bucket of no seats in it
\* and a row that fell into Others.
C8_Witness ==
    /\ view.run
    /\ Len(filtered_df) < Len(df.rows)
    /\ \E k \in 1..4 : view.comp_df[k].Filtered_Seats = 0 /\ view.comp_df[k].Statewide_Seats > 0
    /\ \E k \in 1..4 : view.comp_df[k].Party = Others /\ view.comp_df[k].Statewide_Seats > 0

\* C9 as claimed: every load call that returns a dataset returns the dataset
\* of the source file as it is at that call (the same dataset while the
\* source is unchanged, the new one once it has changed).
C9_LoadTracksSource ==
    [][ (pc = "start" /\ pc' = "loaded") => df' = coerce(read_csv(file)) ]_vars

\* C9 (amended): the load is cached for the life of the process and a
\* change of the source file does not invalidate the cache.  Once a load has
\* returned a dataset, every later load call returns that same dataset
\* without reading the file, whatever the file holds by then; the file is
\* read only while the cache has no entry (the first call, or after loads
\* that stopped on missing columns), and the dataset read then is the one
\* that is cached.
C9_LoadCached ==
    [][ /\ (pc = "start" /\ pc' # "start" /\ cache # << >>) =>
            /\ pc' = "loaded"
            /\ df' = cache[1]
            /\ ~readCsv'
        /\ (pc = "start" /\ pc' # "start" /\ cache = << >>) =>
            /\ readCsv'
            /\ pc' = "loaded" => (df' = coerce(read_csv(file)) /\ cache' = << df' >>)
            /\ pc' = "stopped" => cache' = << >>
        /\ cache # << >> => cache' = cache ]_vars

\* A load served from the cache after the file was replaced: the dataset
\* returned is not the file's.
C9_Witness ==
    /\ pc = "loaded"
    /\ ~readCsv
    /\ cache = << df >>
    /\ required \subseteq file.cols
    /\ df # coerce(read_csv(file))

====
